---- MODULE Spec2Model ----
(***************************************************************************)
(* Model of country_info.py, an interactive client of the SOAP             *)
(* CountryInfoService: the transport (a requests session with a urllib3    *)
(* Retry policy), the two response parsers, the bounded search history,    *)
(* the export file and the interactive loop of main().                     *)
(*                                                                         *)
(* Python strings are sequences of one-character strings, so that upper(), *)
(* lower(), strip(), the substring test, split() and the ordering used by  *)
(* sorted() are computed and not assumed.  Python's None is the value      *)
(* None below; an XML document is the preorder list of its elements, each  *)
(* with its tag (ElementTree's "{namespace}local" form), its text (None    *)
(* for an element without content) and its depth.                          *)
(***************************************************************************)
EXTENDS Integers, Sequences, FiniteSets, TLC

VARIABLES
    pc,            \* main(): "startup", "prompt", "lookup", "terminated"
    codigos,       \* main(): the code list fetched at startup
    historial,     \* the global historial_busquedas
    archivo,       \* resultados_paises.txt: [existe, bloques]
    salida,        \* the last message printed
    peticion,      \* the SOAP request in flight, NoPeticion when there is none
    entrada,       \* the line read by input() in the current iteration
    estado_salida, \* the process exit status (-1 while running)
    reloj,         \* datetime.now(), in seconds
    registro,      \* every entry ever passed to historial_busquedas.append
    argumento,     \* the argument of the function under study
    resultado      \* its result

vars == <<pc, codigos, historial, archivo, salida, peticion, entrada,
          estado_salida, reloj, registro, argumento, resultado>>

----------------------------------------------------------------------------
(* Strings *)

None == <<"None">>

Letras == <<"a","b","c","d","e","f","g","h","i","j","k","l","m",
            "n","o","p","q","r","s","t","u","v","w","x","y","z">>

Mayusculas == <<"A","B","C","D","E","F","G","H","I","J","K","L","M",
                "N","O","P","Q","R","S","T","U","V","W","X","Y","Z">>

\* The characters in code-point order (space < , < A-Z < a-z < { < }).
Ascii == <<" ", ",">> \o Mayusculas \o Letras \o <<"{", "}">>

Ord(c) == CHOOSE i \in DOMAIN Ascii : Ascii[i] = c

UpperChar(c) ==
    IF \E i \in DOMAIN Letras : Letras[i] = c
    THEN Mayusculas[CHOOSE i \in DOMAIN Letras : Letras[i] = c]
    ELSE c

LowerChar(c) ==
    IF \E i \in DOMAIN Mayusculas : Mayusculas[i] = c
    THEN Letras[CHOOSE i \in DOMAIN Mayusculas : Mayusculas[i] = c]
    ELSE c

\* str.upper() and str.lower()
Upper(s) == [i \in DOMAIN s |-> UpperChar(s[i])]
Lower(s) == [i \in DOMAIN s |-> LowerChar(s[i])]

\* str.strip()
RECURSIVE LStrip(_)
LStrip(s) == IF s # <<>> /\ Head(s) = " " THEN LStrip(Tail(s)) ELSE s

RECURSIVE RStrip(_)
RStrip(s) ==
    IF s # <<>> /\ s[Len(s)] = " " THEN RStrip(SubSeq(s, 1, Len(s) - 1)) ELSE s

Strip(s) == RStrip(LStrip(s))

\* `p in s` on strings
Contains(s, p) ==
    \E i \in 1..(Len(s) - Len(p) + 1) : SubSeq(s, i, i + Len(p) - 1) = p

\* s < t on two strings (lexicographic on code points)
RECURSIVE StrLess(_, _)
StrLess(s, t) ==
    IF t = <<>> THEN FALSE
    ELSE IF s = <<>> THEN TRUE
    ELSE IF Head(s) = Head(t) THEN StrLess(Tail(s), Tail(t))
    ELSE Ord(Head(s)) < Ord(Head(t))

\* s.split('}')[-1]: what follows the last '}'
RECURSIVE AfterLastBrace(_)
AfterLastBrace(s) ==
    IF \E i \in DOMAIN s : s[i] = "}"
    THEN AfterLastBrace(SubSeq(s, (CHOOSE i \in DOMAIN s : s[i] = "}") + 1, Len(s)))
    ELSE s

\* sep.join(xs)
RECURSIVE Join(_, _)
Join(sep, xs) ==
    IF xs = <<>> THEN <<>>
    ELSE IF Len(xs) = 1 THEN xs[1]
    ELSE xs[1] \o sep \o Join(sep, Tail(xs))

\* sorted(xs) on a list of strings: insertion of each item after the items
\* not greater than it (a stable sort).
RECURSIVE Insert(_, _)
Insert(x, ys) ==
    IF ys = <<>> THEN <<x>>
    ELSE IF StrLess(x, Head(ys)) THEN <<x>> \o ys
    ELSE <<Head(ys)>> \o Insert(x, Tail(ys))

RECURSIVE SortStrings(_)
SortStrings(xs) ==
    IF xs = <<>> THEN <<>>
    ELSE Insert(xs[Len(xs)], SortStrings(SubSeq(xs, 1, Len(xs) - 1)))

Range(f) == {f[i] : i \in DOMAIN f}

\* The sequences over S of length at most n.
SeqsUpTo(S, n) == UNION {[1..k -> S] : k \in 0..n}

----------------------------------------------------------------------------
(* String constants of the program *)

sISOCode == <<"s","I","S","O","C","o","d","e">>
sName == <<"s","N","a","m","e">>
sCapitalCity == <<"s","C","a","p","i","t","a","l","C","i","t","y">>
sCurrencyISOCode == <<"s","C","u","r","r","e","n","c","y","I","S","O","C","o","d","e">>
sPhoneCode == <<"s","P","h","o","n","e","C","o","d","e">>
sContinentCode == <<"s","C","o","n","t","i","n","e","n","t","C","o","d","e">>
sCountryFlag == <<"s","C","o","u","n","t","r","y","F","l","a","g">>
FullCountryInfoResult ==
    <<"F","u","l","l","C","o","u","n","t","r","y","I","n","f","o",
      "R","e","s","u","l","t">>
NoDisponible == <<"N","o"," ","d","i","s","p","o","n","i","b","l","e">>

\* The service namespace http://www.oorsprong.org/websamples.countryinfo,
\* written N; ElementTree names a qualified tag "{namespace}local".
NsUri == <<"N">>
Qualified(local) == <<"{">> \o NsUri \o <<"}">> \o local

----------------------------------------------------------------------------
(* XML responses *)

\* A response body: vacio for the empty string, bien for well-formed XML
\* (ET.fromstring raises ParseError otherwise), elems the elements in
\* document order, the root first at depth 0.
Element(tag, text, depth) == [tag |-> tag, text |-> text, depth |-> depth]

Documento(elems) == [vacio |-> FALSE, bien |-> TRUE, elems |-> elems]

Malformado == [vacio |-> FALSE, bien |-> FALSE, elems |-> <<>>]

CuerpoVacio == [vacio |-> TRUE, bien |-> FALSE, elems |-> <<>>]

TagHasISOCode(e) == Contains(e.tag, sISOCode)

\* The loop of parsear_lista_paises: the text of every element whose tag
\* contains 'sISOCode', in document order.
RECURSIVE RecogerCodigos(_)
RecogerCodigos(elems) ==
    IF elems = <<>> THEN <<>>
    ELSE (IF TagHasISOCode(Head(elems)) THEN <<Head(elems).text>> ELSE <<>>)
         \o RecogerCodigos(Tail(elems))

\* sorted() raises TypeError when it compares None with anything, and it
\* compares every item of a list of two or more.
SortedRaises(xs) == Len(xs) >= 2 /\ \E i \in DOMAIN xs : xs[i] = None

\* parsear_lista_paises
ParsearListaPaises(xml) ==
    IF ~xml.bien THEN <<>>
    ELSE LET cods == RecogerCodigos(xml.elems)
         IN  IF SortedRaises(cods) THEN <<>> ELSE SortStrings(cods)

\* root.find('.//tag'): the first element below the root with that tag,
\* 0 when there is none.
FindBelowRoot(elems, tag) ==
    LET hits == {i \in 2..Len(elems) : elems[i].tag = tag}
    IN  IF hits = {} THEN 0 ELSE CHOOSE i \in hits : \A j \in hits : i <= j

\* elem.iter(): the element at index i and its descendants.
Subtree(elems, i) ==
    LET after == {j \in (i + 1)..Len(elems) : elems[j].depth <= elems[i].depth}
        stop == IF after = {} THEN Len(elems) + 1
                ELSE CHOOSE j \in after : \A k \in after : j <= k
    IN  SubSeq(elems, i, stop - 1)

LocalTag(tag) == IF \E i \in DOMAIN tag : tag[i] = "}" THEN AfterLastBrace(tag) ELSE tag

Unset == <<"Unset">>

InfoVacia ==
    [nombre |-> Unset, capital |-> Unset, moneda |-> Unset,
     codigo_telefono |-> Unset, continente |-> Unset, bandera_url |-> Unset,
     idiomas |-> <<>>]

\* One pass of the loop body of parsear_info_pais.
ExtraerCampo(acc, e) ==
    LET tag == LocalTag(e.tag)
    IN  IF tag = sName
        THEN IF acc.nombre = Unset
             THEN [acc EXCEPT !.nombre = e.text]
             ELSE [acc EXCEPT !.idiomas = Append(@, e.text)]
        ELSE IF tag = sCapitalCity THEN [acc EXCEPT !.capital = e.text]
        ELSE IF tag = sCurrencyISOCode THEN [acc EXCEPT !.moneda = e.text]
        ELSE IF tag = sPhoneCode THEN [acc EXCEPT !.codigo_telefono = e.text]
        ELSE IF tag = sContinentCode THEN [acc EXCEPT !.continente = e.text]
        ELSE IF tag = sCountryFlag THEN [acc EXCEPT !.bandera_url = e.text]
        ELSE acc

RECURSIVE ExtraerCampos(_, _)
ExtraerCampos(acc, elems) ==
    IF elems = <<>> THEN acc
    ELSE ExtraerCampos(ExtraerCampo(acc, Head(elems)), Tail(elems))

\* info.get(k, 'No disponible')
GetOr(v) == IF v = Unset THEN NoDisponible ELSE v

Ausente == [presente |-> FALSE]

\* ', '.join(xs) raises TypeError on an item that is None.
JoinRaises(xs) == \E i \in DOMAIN xs : xs[i] = None

\* parsear_info_pais
ParsearInfoPais(xml) ==
    IF ~xml.bien THEN Ausente
    ELSE
      LET q == FindBelowRoot(xml.elems, Qualified(FullCountryInfoResult))
          r == IF q # 0 THEN q ELSE FindBelowRoot(xml.elems, FullCountryInfoResult)
      IN  IF r = 0 THEN Ausente
          ELSE LET info == ExtraerCampos(InfoVacia, Subtree(xml.elems, r))
               IN  IF info.nombre = Unset THEN Ausente
                   ELSE IF JoinRaises(info.idiomas) THEN Ausente
                   ELSE [presente |-> TRUE,
                         nombre |-> GetOr(info.nombre),
                         capital |-> GetOr(info.capital),
                         moneda |-> GetOr(info.moneda),
                         idiomas |-> IF info.idiomas # <<>>
                                     THEN Join(<<",", " ">>, info.idiomas)
                                     ELSE NoDisponible,
                         codigo_telefono |-> GetOr(info.codigo_telefono),
                         continente |-> GetOr(info.continente),
                         bandera_url |-> GetOr(info.bandera_url)]

----------------------------------------------------------------------------
(* Transport: crear_session and hacer_llamada_soap *)

\* Retry(total=3, ...)
RetryTotal == 3

\* status_forcelist
StatusForcelist == {429, 500, 502, 503, 504}

\* crear_session passes no allowed_methods to Retry, which leaves urllib3's
\* default (Retry.DEFAULT_ALLOWED_METHODS): the idempotent methods.
AllowedMethods == {"DELETE", "GET", "HEAD", "OPTIONS", "PUT", "TRACE"}

\* What one attempt meets: an HTTP status, a failure to connect, or a
\* failure while reading the response.
Status(n) == [tipo |-> "status", status |-> n]
ConnectError == [tipo |-> "connect_error", status |-> 0]
ReadError == [tipo |-> "read_error", status |-> 0]

\* Retry.is_retry(method, status_code) of the session's policy.
IsRetry(method, status) == method \in AllowedMethods /\ status \in StatusForcelist

\* Retry.increment on an error: a connection error counts against total
\* for every method, a read error is re-raised for a method that is not
\* allowed.
RetriesError(method, e) ==
    e.tipo = "connect_error" \/ (e.tipo = "read_error" /\ method \in AllowedMethods)

\* session.post under the adapter's policy.  script[i] is what attempt i
\* meets, total the retries left.  The result holds the number of attempts
\* made and either the response's status or raised = TRUE.
RECURSIVE SessionPost(_, _, _, _)
SessionPost(method, script, total, hechos) ==
    LET e == Head(script)
        again == IF e.tipo = "status" THEN IsRetry(method, e.status)
                 ELSE RetriesError(method, e)
    IN  IF e.tipo = "status" /\ ~again
        THEN [raised |-> FALSE, status |-> e.status, intentos |-> hechos + 1]
        ELSE IF ~again \/ total - 1 < 0
        THEN [raised |-> TRUE, status |-> e.status, intentos |-> hechos + 1]
        ELSE SessionPost(method, Tail(script), total - 1, hechos + 1)

\* response.raise_for_status()
RaisesForStatus(status) == 400 <= status /\ status < 600

NoneRespuesta == [none |-> TRUE, intentos |-> 0]

\* hacer_llamada_soap: the body of the response, or None after any
\* exception.
HacerLlamadaSoap(script, cuerpo) ==
    LET r == SessionPost("POST", script, RetryTotal, 0)
    IN  IF r.raised \/ RaisesForStatus(r.status)
        THEN [NoneRespuesta EXCEPT !.intentos = r.intentos]
        ELSE [none |-> FALSE, intentos |-> r.intentos, cuerpo |-> cuerpo]

\* `if xml_response:`: neither None nor the empty string
Truthy(r) == ~r.none /\ ~r.cuerpo.vacio

\* obtener_codigos_paises
ObtenerCodigosPaises(script, cuerpo) ==
    LET r == HacerLlamadaSoap(script, cuerpo)
    IN  IF Truthy(r) THEN ParsearListaPaises(r.cuerpo) ELSE <<>>

\* obtener_info_pais
ObtenerInfoPais(script, cuerpo) ==
    LET r == HacerLlamadaSoap(script, cuerpo)
    IN  IF Truthy(r) THEN ParsearInfoPais(r.cuerpo) ELSE Ausente

----------------------------------------------------------------------------
(* The search history and its export *)

\* `if len(historial_busquedas) > 10` and `historial_busquedas[-10:]`
MaxHistorial == 10

\* xs[-n:]
LastN(xs, n) == IF Len(xs) <= n THEN xs ELSE SubSeq(xs, Len(xs) - n + 1, Len(xs))

\* The entry agregar_al_historial builds; ahora is datetime.now().
Busqueda(codigo_pais, info_pais, ahora) ==
    [codigo |-> codigo_pais, nombre |-> info_pais.nombre, fecha |-> ahora,
     info |-> info_pais]

\* agregar_al_historial keeping the first ten ([:10]) instead of the last.
AgregarAlHistorialPrimeras(hist, codigo_pais, info_pais, ahora) ==
    LET mas == Append(hist, Busqueda(codigo_pais, info_pais, ahora))
    IN  IF Len(mas) > MaxHistorial THEN SubSeq(mas, 1, MaxHistorial) ELSE mas

\* agregar_al_historial: the new value of historial_busquedas.
AgregarAlHistorial(hist, codigo_pais, info_pais, ahora) ==
    LET mas == Append(hist, Busqueda(codigo_pais, info_pais, ahora))
    IN  IF Len(mas) > MaxHistorial THEN LastN(mas, MaxHistorial) ELSE mas

\* An f-string field: str(None) is 'None'.
Fmt(v) == IF v = None THEN <<"N","o","n","e">> ELSE v

\* The lines exportar_resultados writes for one entry.
Bloque(b) ==
    [pais |-> Fmt(b.nombre), codigo |-> Fmt(b.codigo), fecha |-> b.fecha,
     capital |-> Fmt(b.info.capital), moneda |-> Fmt(b.info.moneda),
     idiomas |-> Fmt(b.info.idiomas),
     codigo_telefono |-> <<"+">> \o Fmt(b.info.codigo_telefono),
     continente |-> Fmt(b.info.continente)]

NoArchivo == [existe |-> FALSE, exportado |-> 0, bloques |-> <<>>]

\* The file after open(archivo, 'w') and the writes of the with block.
ArchivoEscrito(hist, ahora) ==
    [existe |-> TRUE, exportado |-> ahora,
     bloques |-> [i \in 1..Len(hist) |-> Bloque(hist[i])]]

Mensaje(m) == [msg |-> m, codigo |-> <<>>, info |-> Ausente]

\* exportar_resultados opening the file to append ('a') instead of 'w'.
ExportarResultadosAnexa(hist, file, ahora, io) ==
    IF hist = <<>> THEN [archivo |-> file, salida |-> Mensaje("sin_resultados")]
    ELSE IF io = "ok"
    THEN [archivo |-> [ArchivoEscrito(hist, ahora)
                         EXCEPT !.bloques = file.bloques \o @],
          salida |-> Mensaje("exportado")]
    ELSE [archivo |-> file, salida |-> Mensaje("error_exportar")]

\* exportar_resultados: the file and the message printed.  io is what the
\* file system does: "ok", or "open_error" when open raises (the file is
\* left as it was).
ExportarResultados(hist, file, ahora, io) ==
    IF hist = <<>> THEN [archivo |-> file, salida |-> Mensaje("sin_resultados")]
    ELSE IF io = "ok"
    THEN [archivo |-> ArchivoEscrito(hist, ahora), salida |-> Mensaje("exportado")]
    ELSE [archivo |-> file, salida |-> Mensaje("error_exportar")]

\* mostrar_historial
MostrarHistorial(hist) ==
    IF hist = <<>> THEN Mensaje("sin_busquedas") ELSE Mensaje("historial")

----------------------------------------------------------------------------
(* Inputs of the model *)

\* The searches recorded in one run are at most MaxBusquedas; each is
\* recorded one second after the one before.
MaxBusquedas == 11

\* The elements below the root of a generated list response, and of a
\* generated country-info response.
MaxListaElems == 3
MaxInfoElems == 4

PE == <<"P","E">>
US == <<"U","S">>
AR == <<"A","R">>
pe == <<"p","e">>

Peru == <<"P","e","r","u">>
Lima == <<"L","i","m","a">>
PEN == <<"P","E","N">>
AM == <<"A","M">>
Spanish == <<"S","p","a","n","i","s","h">>
Quechua == <<"Q","u","e","c","h","u","a">>
Envelope == <<"E","n","v","e","l","o","p","e">>
Languages == <<"L","a","n","g","u","a","g","e","s">>

\* The command words of main().
CmdSalir == {<<"s","a","l","i","r">>, <<"e","x","i","t">>, <<"q","u","i","t">>}
CmdAyuda == {<<"a","y","u","d","a">>, <<"h","e","l","p">>}
CmdLista == {<<"l","i","s","t","a">>, <<"l","i","s","t">>}
CmdHistorial == {<<"h","i","s","t","o","r","i","a","l">>, <<"h","i","s","t","o","r","y">>}
CmdExportar == {<<"e","x","p","o","r","t","a","r">>, <<"e","x","p","o","r","t">>}

Raiz == Element(Envelope, None, 0)

\* ListOfCountryNamesByCode responses.
DocListaPEUS ==
    Documento(<<Raiz, Element(Qualified(sISOCode), US, 1),
                Element(Qualified(sName), <<"P","e","r","u">>, 1),
                Element(Qualified(sISOCode), PE, 1)>>)
DocListaPE == Documento(<<Raiz, Element(Qualified(sISOCode), PE, 1)>>)
DocListaSinCodigos == Documento(<<Raiz, Element(Qualified(sName), Peru, 1)>>)
DocListaCodigoVacio == Documento(<<Raiz, Element(Qualified(sISOCode), None, 1)>>)
DocListaMixta ==
    Documento(<<Raiz, Element(Qualified(sISOCode), None, 1),
                Element(Qualified(sISOCode), PE, 1)>>)

ListaCuerpos ==
    {DocListaPEUS, DocListaPE, DocListaSinCodigos, DocListaCodigoVacio,
     DocListaMixta, Malformado, CuerpoVacio}

\* FullCountryInfo responses.
DocPeru ==
    Documento(<<Raiz,
                Element(Qualified(FullCountryInfoResult), None, 1),
                Element(Qualified(sISOCode), PE, 2),
                Element(Qualified(sName), Peru, 2),
                Element(Qualified(sCapitalCity), Lima, 2),
                Element(Qualified(sContinentCode), AM, 2),
                Element(Qualified(sCurrencyISOCode), PEN, 2),
                Element(Qualified(Languages), None, 2),
                Element(Qualified(sName), Spanish, 3),
                Element(Qualified(sName), Quechua, 3)>>)
DocPeruIdiomaVacio ==
    Documento(<<Raiz,
                Element(Qualified(FullCountryInfoResult), None, 1),
                Element(Qualified(sName), Peru, 2),
                Element(Qualified(sName), None, 2)>>)
DocSinNombre ==
    Documento(<<Raiz,
                Element(Qualified(FullCountryInfoResult), None, 1),
                Element(Qualified(sCapitalCity), Lima, 2)>>)

\* What the service answers to a FullCountryInfo request for a code: it
\* holds the data of one country.
InfoCuerpos(codigo) ==
    IF Upper(codigo) = PE
    THEN {DocPeru, DocPeruIdiomaVacio, DocSinNombre, Malformado, CuerpoVacio}
    ELSE {DocSinNombre, Malformado}

\* What the attempts of one call meet.
Siempre(e) == [i \in 1..(RetryTotal + 1) |-> e]
Guiones == {Siempre(Status(200)), Siempre(Status(503)), Siempre(ConnectError)}

\* The lines typed at the prompt.
Lineas ==
    {pe, <<" ">> \o PE \o <<" ">>, US, <<"z","z">>, <<>>, <<" ">>,
     <<"s","a","l","i","r">>, <<"E","x","i","t">>, <<"H","E","L","P">>, <<"l","i","s","t","a">>, <<"h","i","s","t","o","r","y">>, <<"e","x","p","o","r","t","a","r">>,
     <<" ">> \o <<"E","x","p","o","r","t">>}

----------------------------------------------------------------------------
(* main() *)

\* codigos before line 382 assigns it.
SinAsignar == <<Unset>>

NoPeticion == [metodo |-> "", codigo |-> <<>>]

\* The request hacer_llamada_soap sends: the method and, for
\* FullCountryInfo, the content of <sCountryISOCode>.
Peticion(metodo, codigo) == [metodo |-> metodo, codigo |-> codigo]

\* main() without the check of the empty list.
SinCodigosNunca(cods) == FALSE

\* `if not codigos:`
SinCodigos(cods) == cods = <<>>

\* mostrar_codigos_paises formats each code with f"{codigo:3}", which
\* raises TypeError for None.
MostrarCodigosRaises(cods) == \E i \in DOMAIN cods : cods[i] = None

\* main() without the validation against the list.
EnListaSinValidar(codigo_pais, cods) == TRUE

\* `codigo_pais.upper() not in [c.upper() for c in codigos]`
EnLista(codigo_pais, cods) == Upper(codigo_pais) \in {Upper(c) : c \in Range(cods)}

\* The argument main() passes to obtener_info_pais.
CodigoEnviado(codigo_pais) == codigo_pais

\* The code main() passes to mostrar_info_pais and agregar_al_historial.
CodigoMostrado(codigo_pais) == Upper(codigo_pais)

\* The lookup recorded whether or not it succeeded.
HistorialTrasBusquedaSiempre(hist, codigo_pais, info_pais, ahora) ==
    IF info_pais.presente
    THEN AgregarAlHistorial(hist, CodigoMostrado(codigo_pais), info_pais, ahora)
    ELSE Append(hist, [codigo |-> CodigoMostrado(codigo_pais), nombre |-> None,
                       fecha |-> ahora, info |-> info_pais])

\* `if info_pais:` and its two branches: the history after the lookup.
HistorialTrasBusqueda(hist, codigo_pais, info_pais, ahora) ==
    IF info_pais.presente
    THEN AgregarAlHistorial(hist, CodigoMostrado(codigo_pais), info_pais, ahora)
    ELSE hist

\* resultados_paises.txt as an earlier run of the program left it.
ArchivoPrevio ==
    ArchivoEscrito(<<Busqueda(AR, [ParsearInfoPais(DocPeru) EXCEPT !.nombre = AR], 0)>>, 0)

Init ==
    /\ pc = "startup"
    /\ codigos = SinAsignar
    /\ historial = <<>>
    /\ archivo \in {NoArchivo, ArchivoPrevio}
    /\ salida = Mensaje("conectando")
    /\ peticion = Peticion("ListOfCountryNamesByCode", <<>>)
    /\ entrada = <<>>
    /\ estado_salida = -1
    /\ reloj = 1
    /\ registro = <<>>
    /\ argumento = <<>>
    /\ resultado = <<>>

\* Lines 382-395: the answer to the startup request arrives.
StartupReturn(script, cuerpo) ==
    /\ pc = "startup"
    /\ LET cods == ObtenerCodigosPaises(script, cuerpo)
       IN  /\ codigos' = cods
           /\ IF SinCodigos(cods)
              THEN /\ salida' = Mensaje("sin_codigos")
                   /\ pc' = "terminated"
                   /\ estado_salida' = 1
              ELSE IF MostrarCodigosRaises(cods)
              THEN /\ salida' = Mensaje("traceback")
                   /\ pc' = "terminated"
                   /\ estado_salida' = 1
              ELSE /\ salida' = Mensaje("ayuda")
                   /\ pc' = "prompt"
                   /\ estado_salida' = estado_salida
    /\ peticion' = NoPeticion
    /\ UNCHANGED <<historial, archivo, entrada, reloj, registro, argumento, resultado>>

\* Lines 401-435: one line is read and dispatched, up to the sending of
\* the FullCountryInfo request.
Iteracion(linea) ==
    /\ pc = "prompt"
    /\ entrada' = linea
    /\ LET codigo_pais == Strip(linea)
       IN  IF Lower(codigo_pais) \in CmdSalir
           THEN /\ salida' = Mensaje("hasta_luego")
                /\ pc' = "terminated"
                /\ estado_salida' = 0
                /\ UNCHANGED <<archivo, peticion>>
           ELSE IF Lower(codigo_pais) \in CmdAyuda
           THEN /\ salida' = Mensaje("ayuda")
                /\ UNCHANGED <<pc, estado_salida, archivo, peticion>>
           ELSE IF Lower(codigo_pais) \in CmdLista
           THEN /\ salida' = IF MostrarCodigosRaises(codigos)
                             THEN Mensaje("error_inesperado")
                             ELSE Mensaje("lista")
                /\ UNCHANGED <<pc, estado_salida, archivo, peticion>>
           ELSE IF Lower(codigo_pais) \in CmdHistorial
           THEN /\ salida' = MostrarHistorial(historial)
                /\ UNCHANGED <<pc, estado_salida, archivo, peticion>>
           ELSE IF Lower(codigo_pais) \in CmdExportar
           THEN /\ \E io \in {"ok", "open_error"} :
                        LET exp == ExportarResultados(historial, archivo, reloj, io)
                        IN  /\ salida' = exp.salida
                            /\ archivo' = exp.archivo
                /\ UNCHANGED <<pc, estado_salida, peticion>>
           ELSE IF codigo_pais = <<>>
           THEN /\ salida' = Mensaje("codigo_invalido")
                /\ UNCHANGED <<pc, estado_salida, archivo, peticion>>
           ELSE IF ~EnLista(codigo_pais, codigos)
           THEN /\ salida' = [Mensaje("no_en_lista") EXCEPT !.codigo = codigo_pais]
                /\ UNCHANGED <<pc, estado_salida, archivo, peticion>>
           ELSE /\ salida' = [Mensaje("buscando") EXCEPT !.codigo = Upper(codigo_pais)]
                /\ peticion' = Peticion("FullCountryInfo", CodigoEnviado(codigo_pais))
                /\ pc' = "lookup"
                /\ UNCHANGED <<estado_salida, archivo>>
    /\ UNCHANGED <<codigos, historial, reloj, registro, argumento, resultado>>

\* Lines 435-442: the answer to the FullCountryInfo request arrives.
LookupReturn(script, cuerpo) ==
    /\ pc = "lookup"
    /\ LET codigo_pais == Strip(entrada)
           info_pais == ObtenerInfoPais(script, cuerpo)
       IN  /\ info_pais.presente => Len(registro) < MaxBusquedas
           /\ salida' = IF info_pais.presente
                        THEN [msg |-> "info_pais",
                              codigo |-> CodigoMostrado(codigo_pais),
                              info |-> info_pais]
                        ELSE [Mensaje("no_se_pudo") EXCEPT !.codigo = codigo_pais]
           /\ historial' = HistorialTrasBusqueda(historial, codigo_pais, info_pais, reloj)
           /\ registro' = IF info_pais.presente
                          THEN Append(registro, Busqueda(CodigoMostrado(codigo_pais),
                                                         info_pais, reloj))
                          ELSE registro
           /\ reloj' = IF info_pais.presente THEN reloj + 1 ELSE reloj
    /\ pc' = "prompt"
    /\ peticion' = NoPeticion
    /\ UNCHANGED <<codigos, archivo, entrada, estado_salida, argumento, resultado>>

\* Ctrl-C.  hacer_llamada_soap catches Exception, which KeyboardInterrupt
\* is not; main() catches it inside the loop only (line 444).  Uncaught,
\* it ends the process with a traceback: killed by SIGINT (130) or, before
\* Python 3.8, with status 1.
KeyboardInterrupt ==
    /\ pc \in {"startup", "prompt", "lookup"}
    /\ IF pc = "startup"
       THEN /\ salida' = Mensaje("traceback")
            /\ estado_salida' \in {1, 130}
       ELSE /\ salida' = Mensaje("hasta_luego")
            /\ estado_salida' = 0
    /\ pc' = "terminated"
    /\ UNCHANGED <<codigos, historial, archivo, peticion, entrada, reloj,
                   registro, argumento, resultado>>

Next ==
    \/ \E script \in Guiones, cuerpo \in ListaCuerpos : StartupReturn(script, cuerpo)
    \/ \E linea \in Lineas : Iteracion(linea)
    \/ \E script \in Guiones, cuerpo \in InfoCuerpos(peticion.codigo) :
            LookupReturn(script, cuerpo)
    \/ KeyboardInterrupt

Spec == Init /\ [][Next]_vars

----------------------------------------------------------------------------
(* The functions on their own *)

\* The state of main() while a function is studied on its own.
SinMain ==
    /\ codigos = SinAsignar
    /\ historial = <<>>
    /\ archivo = NoArchivo
    /\ salida = Mensaje("")
    /\ peticion = NoPeticion
    /\ entrada = <<>>
    /\ estado_salida = -1
    /\ reloj = 1
    /\ registro = <<>>

soloFuncion == <<codigos, historial, archivo, salida, peticion, entrada,
                 estado_salida, reloj, registro, argumento>>

\* agregar_al_historial called with any codes and records.
InitHistorial ==
    /\ SinMain
    /\ pc = "historial"
    /\ argumento = <<>>
    /\ resultado = <<>>

Agregar(codigo_pais, info_pais) ==
    /\ pc = "historial"
    /\ Len(registro) < MaxBusquedas
    /\ historial' = AgregarAlHistorial(historial, codigo_pais, info_pais, reloj)
    /\ registro' = Append(registro, Busqueda(codigo_pais, info_pais, reloj))
    /\ reloj' = reloj + 1
    /\ UNCHANGED <<pc, codigos, archivo, salida, peticion, entrada, estado_salida,
                   argumento, resultado>>

NextHistorial == \E c \in {PE, US} : Agregar(c, ParsearInfoPais(DocPeru))

SpecHistorial == InitHistorial /\ [][NextHistorial]_vars

\* parsear_lista_paises on generated responses: a root and up to
\* MaxListaElems elements below it.
ListaElementos ==
    {Element(tag, text, 1) :
        tag \in {sISOCode, Qualified(sISOCode), Qualified(sName)},
        text \in {None, PE, AR, pe}}

ListaDocs ==
    {Malformado} \cup
    {Documento(<<Raiz>> \o es) : es \in SeqsUpTo(ListaElementos, MaxListaElems)}

InitLista ==
    /\ SinMain
    /\ pc = "parsear_lista"
    /\ argumento \in ListaDocs
    /\ resultado = <<>>

LlamarParsearLista ==
    /\ pc = "parsear_lista"
    /\ resultado' = ParsearListaPaises(argumento)
    /\ pc' = "lista_parseada"
    /\ UNCHANGED soloFuncion

SpecLista == InitLista /\ [][LlamarParsearLista]_vars

\* parsear_info_pais on generated responses.
InfoElementos ==
    {Element(tag, None, d) :
        tag \in {FullCountryInfoResult, Qualified(FullCountryInfoResult)},
        d \in {1, 2}}
    \cup {Element(Qualified(sName), text, d) :
            text \in {None, Peru, Spanish}, d \in {1, 2}}
    \cup {Element(Qualified(sCapitalCity), Lima, d) : d \in {1, 2}}

\* A preorder list: an element is at most one level below the one before.
EsPreorden(es) ==
    \A i \in DOMAIN es : es[i].depth <= (IF i = 1 THEN 0 ELSE es[i - 1].depth) + 1

InfoDocs ==
    {Malformado} \cup
    {Documento(<<Raiz>> \o es) :
        es \in {x \in SeqsUpTo(InfoElementos, MaxInfoElems) : EsPreorden(<<Raiz>> \o x)}}

InitInfo ==
    /\ SinMain
    /\ pc = "parsear_info"
    /\ argumento \in InfoDocs
    /\ resultado = Ausente

LlamarParsearInfo ==
    /\ pc = "parsear_info"
    /\ resultado' = ParsearInfoPais(argumento)
    /\ pc' = "info_parseada"
    /\ UNCHANGED soloFuncion

SpecInfo == InitInfo /\ [][LlamarParsearInfo]_vars

\* hacer_llamada_soap against a server that answers the attempts of one
\* call as the script says.
Eventos ==
    {Status(200), Status(404), Status(429), Status(500), Status(502),
     Status(503), Status(504), ConnectError, ReadError}

InitLlamada ==
    /\ SinMain
    /\ pc = "llamar"
    /\ argumento \in [1..(RetryTotal + 1) -> Eventos]
    /\ resultado = NoneRespuesta

LlamarSoap ==
    /\ pc = "llamar"
    /\ resultado' = HacerLlamadaSoap(argumento, DocListaPEUS)
    /\ pc' = "llamada_hecha"
    /\ UNCHANGED soloFuncion

SpecLlamada == InitLlamada /\ [][LlamarSoap]_vars

----------------------------------------------------------------------------
(* Claims *)

Min(a, b) == IF a < b THEN a ELSE b

\* C1: after any sequence of agregar_al_historial calls from the empty
\* history, the history holds at most 10 entries and is exactly the last
\* min(k, 10) of the k entries appended, oldest first.
C1_UltimasDiez ==
    /\ Len(historial) <= 10
    /\ Len(historial) = Min(Len(registro), 10)
    /\ \A i \in 1..Len(historial) :
          historial[i] = registro[Len(registro) - Len(historial) + i]

\* C1 witness: eleven entries were appended and entries 2..11 are left.
C1_OnceAgregadas ==
    /\ Len(registro) = 11
    /\ historial = SubSeq(registro, 2, 11)
    /\ registro[1] # registro[2]

\* C2: in the loop the history changes only in an iteration whose lookup
\* succeeded (the detail view is shown), and then by one entry appended at
\* the end, the oldest being dropped beyond ten; every other step leaves
\* the history as it was.
C2_HistorialSoloTrasBusqueda ==
    [][IF pc = "lookup" /\ pc' = "prompt" /\ salida'.msg = "info_pais"
       THEN LET n == Len(historial')
            IN  /\ n = Min(Len(historial) + 1, 10)
                /\ historial'[n].codigo = salida'.codigo
                /\ historial'[n].info = salida'.info
                /\ \A i \in 1..(n - 1) :
                      historial'[i] = historial[Len(historial) - (n - 1) + i]
       ELSE historial' = historial]_vars

\* C2 witness: a successful lookup was recorded in a full history.
C2_BusquedaRegistrada ==
    /\ pc = "prompt"
    /\ salida.msg = "info_pais"
    /\ Len(registro) = 11
    /\ Len(historial) = 10

\* The line is neither a command nor empty once trimmed.
EsCandidato(linea) ==
    /\ Strip(linea) # <<>>
    /\ Lower(Strip(linea)) \notin
          CmdSalir \cup CmdAyuda \cup CmdLista \cup CmdHistorial \cup CmdExportar

\* The trimmed line is, ignoring case, one of the fetched codes.
EsMiembro(linea) ==
    \E k \in DOMAIN codigos : Lower(codigos[k]) = Lower(Strip(linea))

\* C3: a FullCountryInfo request is sent only for a line that, ignoring
\* case, is one of the codes fetched at startup; for an empty line or a
\* code that is not in the list the validation message is shown and no
\* request is sent.
C3_SoloCodigosDeLaLista ==
    /\ [](pc = "lookup" =>
            /\ peticion.metodo = "FullCountryInfo"
            /\ EsMiembro(entrada)
            /\ Lower(peticion.codigo) = Lower(Strip(entrada)))
    /\ [][pc = "prompt" /\ pc' # "terminated" =>
            /\ peticion' # NoPeticion => EsCandidato(entrada') /\ EsMiembro(entrada')
            /\ Strip(entrada') = <<>> =>
                  /\ peticion' = NoPeticion
                  /\ pc' = "prompt"
                  /\ salida'.msg = "codigo_invalido"
            /\ EsCandidato(entrada') /\ ~EsMiembro(entrada') =>
                  /\ peticion' = NoPeticion
                  /\ pc' = "prompt"
                  /\ salida'.msg = "no_en_lista"]_vars
    /\ [][pc = "prompt" /\ pc' = "terminated" => peticion' = NoPeticion]_vars

\* C3 witness: "zz" was typed with PE and US fetched, and refused.
C3_CodigoRechazado ==
    /\ pc = "prompt"
    /\ codigos = <<PE, US>>
    /\ entrada = <<"z","z">>
    /\ salida.msg = "no_en_lista"
    /\ peticion = NoPeticion

\* C4: a POST that receives a status in {429,500,502,503,504} is retried,
\* up to 3 more attempts: when such statuses are followed by a 200 within
\* the four attempts, hacer_llamada_soap returns the body, from that attempt.
C4_ReintentaPost ==
    pc = "llamada_hecha" =>
        \A i \in 1..4 :
            (/\ \A j \in 1..(i - 1) :
                    /\ argumento[j].tipo = "status"
                    /\ argumento[j].status \in {429, 500, 502, 503, 504}
             /\ argumento[i] = Status(200))
            => /\ ~resultado.none
               /\ resultado.intentos = i
               /\ resultado.cuerpo = DocListaPEUS

\* The startup fetch fails or yields no codes: the transport fails, the
\* body is empty or malformed, or no element is a code element.
FetchSinCodigos(script, cuerpo) ==
    \/ script # Siempre(Status(200))
    \/ ~cuerpo.bien
    \/ ~\E i \in DOMAIN cuerpo.elems : Contains(cuerpo.elems[i].tag, sISOCode)

\* C5: when the startup fetch fails or yields no codes the process ends
\* with status 1 and the prompt is never reached; the prompt is reached
\* only with a non-empty code list.
C5_SinCodigosTermina ==
    /\ [](pc \in {"prompt", "lookup"} => codigos # SinAsignar /\ codigos # <<>>)
    /\ [][\A script \in Guiones, cuerpo \in ListaCuerpos :
            pc = "startup" /\ FetchSinCodigos(script, cuerpo)
            /\ StartupReturn(script, cuerpo) =>
                /\ pc' = "terminated"
                /\ estado_salida' = 1
                /\ salida'.msg = "sin_codigos"]_vars
    /\ [][pc = "startup" /\ codigos' = <<>> =>
            pc' = "terminated" /\ estado_salida' = 1]_vars
    /\ [][pc = "terminated" => pc' = "terminated"]_vars

\* C5 witness: the fetch yielded no codes and the process ended with 1.
C5_TerminadoSinCodigos ==
    /\ pc = "terminated"
    /\ codigos = <<>>
    /\ salida.msg = "sin_codigos"
    /\ estado_salida = 1
    /\ entrada = <<>>

\* C6: an interrupt, in whichever state it arrives (Startup, AwaitingInput,
\* Dispatching), ends the program with the farewell message and status 0.
C6_InterrupcionDespide ==
    [][KeyboardInterrupt =>
          /\ pc' = "terminated"
          /\ salida'.msg = "hasta_luego"
          /\ estado_salida' = 0]_vars

\* C7: for every line accepted as a country code, the code sent in the
\* FullCountryInfo request, the code of the detail view and the code of
\* the history entry are the uppercase form of the line.
C7_CodigoEnMayusculas ==
    /\ pc = "lookup" => peticion.codigo = Upper(Strip(entrada))
    /\ salida.msg = "info_pais" =>
          /\ salida.codigo = Upper(Strip(entrada))
          /\ historial[Len(historial)].codigo = Upper(Strip(entrada))

\* The elements of a response whose tag contains sISOCode.
CodigosEn(xml) == {i \in DOMAIN xml.elems : Contains(xml.elems[i].tag, sISOCode)}

\* C8: for every well-formed list response with N elements whose tag
\* contains "sISOCode", empty ones included, parsear_lista_paises returns
\* exactly N entries, the texts of those elements, in ascending order.
C8_ListaCompleta ==
    pc = "lista_parseada" /\ argumento.bien =>
        /\ Len(resultado) = Cardinality(CodigosEn(argumento))
        /\ \A t \in {argumento.elems[i].text : i \in CodigosEn(argumento)} :
              Cardinality({k \in DOMAIN resultado : resultado[k] = t}) =
              Cardinality({i \in CodigosEn(argumento) : argumento.elems[i].text = t})
        /\ \A k \in 1..(Len(resultado) - 1) : ~StrLess(resultado[k + 1], resultado[k])

\* The texts of the sName elements of the FullCountryInfoResult of a
\* response (the qualified one first), in document order; <<>> without.
RECURSIVE TextosDeNombre(_)
TextosDeNombre(elems) ==
    IF elems = <<>> THEN <<>>
    ELSE (IF Head(elems).tag \in {sName, Qualified(sName)}
          THEN <<Head(elems).text>> ELSE <<>>) \o TextosDeNombre(Tail(elems))

NombresEn(xml) ==
    LET q == FindBelowRoot(xml.elems, Qualified(FullCountryInfoResult))
        r == IF q # 0 THEN q ELSE FindBelowRoot(xml.elems, FullCountryInfoResult)
    IN  IF r = 0 THEN <<>> ELSE TextosDeNombre(Subtree(xml.elems, r))

\* C9: for every well-formed response whose FullCountryInfoResult holds an
\* sName, parsear_info_pais returns a record whose name is the first sName
\* and whose languages are the later ones joined with ", " ("No disponible"
\* without any); without an sName it returns absent.
C9_NombreEIdiomas ==
    pc = "info_parseada" /\ argumento.bien =>
        LET nombres == NombresEn(argumento)
        IN  IF nombres = <<>> THEN resultado = Ausente
            ELSE /\ resultado.presente
                 /\ resultado.nombre = nombres[1]
                 /\ resultado.idiomas = IF Len(nombres) = 1 THEN NoDisponible
                                        ELSE Join(<<",", " ">>, Tail(nombres))

\* The line is an export command.
EsExportar(linea) == Lower(Strip(linea)) \in CmdExportar

\* The file holds one block per entry of the history, in history order.
ArchivoRefleja(file, hist) ==
    /\ Len(file.bloques) = Len(hist)
    /\ \A i \in 1..Len(hist) :
          /\ file.bloques[i].codigo = hist[i].codigo
          /\ file.bloques[i].pais = hist[i].nombre
          /\ file.bloques[i].fecha = hist[i].fecha
          /\ file.bloques[i].capital = hist[i].info.capital
          /\ file.bloques[i].moneda = hist[i].info.moneda
          /\ file.bloques[i].idiomas = hist[i].info.idiomas
          /\ file.bloques[i].continente = hist[i].info.continente

\* C10 as stated: every export command, in every history state, the empty
\* one included, leaves the file holding the full current history and
\* nothing of an earlier export.
C10_ExportaSiempre ==
    [][pc = "prompt" /\ pc' = "prompt" /\ EsExportar(entrada') =>
          ArchivoRefleja(archivo', historial')]_vars

\* C10 amended: an export command given with a non-empty history, and
\* whose write succeeds, leaves the file holding the full current history
\* and nothing else; given with the empty history it writes nothing and
\* leaves the file as it was; when the file cannot be opened the failure
\* is reported and the file is left as it was.
C10_ExportaHistorial ==
    [][pc = "prompt" /\ pc' = "prompt" /\ EsExportar(entrada') =>
              /\ historial' = historial
              /\ IF historial = <<>>
                 THEN archivo' = archivo /\ salida'.msg = "sin_resultados"
                 ELSE /\ salida'.msg \in {"exportado", "error_exportar"}
                      /\ salida'.msg = "exportado" =>
                            archivo'.existe /\ ArchivoRefleja(archivo', historial)
                      /\ salida'.msg = "error_exportar" => archivo' = archivo]_vars

\* C10 witness: a full history was exported over an earlier export.
C10_Exportado ==
    /\ pc = "prompt"
    /\ salida.msg = "exportado"
    /\ Len(registro) = 11
    /\ Len(archivo.bloques) = 10
    /\ archivo.bloques[1].fecha = 2

====
